---- MODULE Spec2Model ----
(***************************************************************************)
(* Model of the u64-id crate (src/src/lib.rs): the U64Id value type, its   *)
(* random constructor, null check, and its serde Serialize / Deserialize   *)
(* implementations.                                                        *)
(*                                                                         *)
(* A u64 is kept at its full width of 64 bits.  TLC's integers are 32 bits *)
(* wide, so a u64 is a sequence of four 16-bit limbs, most significant     *)
(* first; an i64 is the same four limbs read in two's complement.  A       *)
(* string is a sequence of one-character strings.                          *)
(***************************************************************************)
EXTENDS Integers, Sequences, FiniteSets, TLC

----------------------------------------------------------------------------
(* 64-bit words *)

LimbBase == 2^16

LimbMax == LimbBase - 1

\* 0u64
U64_ZERO == <<0, 0, 0, 0>>

\* u64::MAX = 2^64 - 1
U64_MAX == <<LimbMax, LimbMax, LimbMax, LimbMax>>

\* widening of a small literal (below 2^31) to a u64
FromNat(n) == <<0, 0, n \div LimbBase, n % LimbBase>>

\* a wider literal (below 2^63): hi * 2^32 + lo, both halves below 2^31
FromHalves(hi, lo) ==
    <<hi \div LimbBase, hi % LimbBase, lo \div LimbBase, lo % LimbBase>>

\* x < y on u64 (derive(PartialOrd, Ord) on the payload)
LtU64(x, y) ==
    \E i \in 1..4 : /\ x[i] < y[i]
                    /\ \A j \in 1..(i - 1) : x[j] = y[j]

\* x - n for a small n, wrapping never needed where it is used (x >= n)
SubSmall(x, n) ==
    LET t4 == x[4] - n
        b4 == IF t4 < 0 THEN 1 ELSE 0
        t3 == x[3] - b4
        b3 == IF t3 < 0 THEN 1 ELSE 0
        t2 == x[2] - b3
        b2 == IF t2 < 0 THEN 1 ELSE 0
        t1 == x[1] - b2
    IN  << t1 % LimbBase, t2 % LimbBase, t3 % LimbBase, t4 % LimbBase >>

\* u64::checked_mul(x, m) for a small m: None on overflow
checked_mul(x, m) ==
    LET t4 == x[4] * m
        t3 == x[3] * m + (t4 \div LimbBase)
        t2 == x[2] * m + (t3 \div LimbBase)
        t1 == x[1] * m + (t2 \div LimbBase)
    IN  [some |-> (t1 \div LimbBase) = 0,
         val  |-> << t1 % LimbBase, t2 % LimbBase, t3 % LimbBase, t4 % LimbBase >>]

\* u64::checked_add(x, a) for a small a: None on overflow
checked_add(x, a) ==
    LET t4 == x[4] + a
        t3 == x[3] + (t4 \div LimbBase)
        t2 == x[2] + (t3 \div LimbBase)
        t1 == x[1] + (t2 \div LimbBase)
    IN  [some |-> (t1 \div LimbBase) = 0,
         val  |-> << t1 % LimbBase, t2 % LimbBase, t3 % LimbBase, t4 % LimbBase >>]

\* x / d and x % d for a small d
DivMod(x, d) ==
    LET t1 == x[1]
        t2 == (t1 % d) * LimbBase + x[2]
        t3 == (t2 % d) * LimbBase + x[3]
        t4 == (t3 % d) * LimbBase + x[4]
    IN  [quot |-> << t1 \div d, t2 \div d, t3 \div d, t4 \div d >>,
         rem  |-> t4 % d]

\* (!x).wrapping_add(1): the magnitude of a negative i64
WrappingNeg(x) ==
    checked_add(<< LimbMax - x[1], LimbMax - x[2], LimbMax - x[3], LimbMax - x[4] >>, 1).val

\* v < 0 for an i64 held as its 64 bits
IsNegative(v) == v[1] >= LimbBase \div 2

----------------------------------------------------------------------------
(* formatting and parsing *)

LowerDigits ==
    << "0","1","2","3","4","5","6","7","8","9","a","b","c","d","e","f",
       "g","h","i","j","k","l","m","n","o","p","q","r","s","t","u","v",
       "w","x","y","z" >>

UpperDigits ==
    << "0","1","2","3","4","5","6","7","8","9","A","B","C","D","E","F",
       "G","H","I","J","K","L","M","N","O","P","Q","R","S","T","U","V",
       "W","X","Y","Z" >>

\* the digits of x in the given radix, most significant first, no leading
\* zeros, "0" for zero
RECURSIVE FmtRadix(_, _, _)
FmtRadix(x, radix, digits) ==
    LET dm == DivMod(x, radix)
    IN  (IF dm.quot = U64_ZERO THEN << >> ELSE FmtRadix(dm.quot, radix, digits))
            \o << digits[dm.rem + 1] >>

\* a slip of the format string: format!("{:#x}", x)
LowerHexPrefixed(x) == << "0", "x" >> \o FmtRadix(x, 16, LowerDigits)

\* format!("{:x}", x)
LowerHexU64(x) == FmtRadix(x, 16, LowerDigits)

\* format!("{:X}", x)
UpperHexU64(x) == FmtRadix(x, 16, UpperDigits)

\* u64::to_string
U64ToString(x) == FmtRadix(x, 10, LowerDigits)

\* i64::to_string
I64ToString(v) ==
    IF IsNegative(v) THEN << "-" >> \o FmtRadix(WrappingNeg(v), 10, LowerDigits)
    ELSE FmtRadix(v, 10, LowerDigits)

\* a slip: the digit's value is not held against the radix
to_digit_any(c, radix) ==
    LET hits == { i \in 1..36 : LowerDigits[i] = c \/ UpperDigits[i] = c }
    IN  IF hits = {} THEN -1 ELSE (CHOOSE i \in hits : TRUE) - 1

\* char::to_digit(c, radix): -1 stands for None
to_digit(c, radix) ==
    LET hits == { i \in 1..36 : LowerDigits[i] = c \/ UpperDigits[i] = c }
        d    == IF hits = {} THEN -1 ELSE (CHOOSE i \in hits : TRUE) - 1
    IN  IF d >= 0 /\ d < radix THEN d ELSE -1

ParseOk(v)   == [ok |-> TRUE,  val |-> v,     kind |-> "none"]
ParseErr(k)  == [ok |-> FALSE, val |-> << >>, kind |-> k]

RECURSIVE ParseDigits(_, _, _)
ParseDigits(acc, ds, radix) ==
    IF ds = << >> THEN ParseOk(acc)
    ELSE LET d == to_digit(Head(ds), radix)
         IN  IF d < 0 THEN ParseErr("InvalidDigit")
             ELSE LET m == checked_mul(acc, radix)
                  IN  IF ~m.some THEN ParseErr("PosOverflow")
                      ELSE LET a == checked_add(m.val, d)
                           IN  IF ~a.some THEN ParseErr("PosOverflow")
                               ELSE ParseDigits(a.val, Tail(ds), radix)

\* u64::from_str_radix(src, radix)
from_str_radix(src, radix) ==
    IF src = << >> THEN ParseErr("Empty")
    ELSE IF src = << "+" >> \/ src = << "-" >> THEN ParseErr("InvalidDigit")
    ELSE IF Head(src) = "+" THEN ParseDigits(U64_ZERO, Tail(src), radix)
    ELSE ParseDigits(U64_ZERO, src, radix)

----------------------------------------------------------------------------
(* the identifier *)

\* "no identifier": the place of a U64Id that does not exist (an Err result)
NoId == << >>

\* pub const NULL: U64Id = U64Id(u64::MAX)
NULL == U64_MAX

\* a slip: the whole of u64, nothing reserved
VALID_RANGE_full == [start |-> U64_ZERO, end |-> U64_MAX]

\* pub const VALID_RANGE: Range<u64> = 0..(u64::MAX - 128)
VALID_RANGE == [start |-> U64_ZERO, end |-> SubSmall(U64_MAX, 128)]

\* Range::contains: start <= v < end
RangeContains(r, v) == ~LtU64(v, r.start) /\ LtU64(v, r.end)

\* a slip: the other sentinel, 0
is_null_zero(self) == self = U64_ZERO

\* pub const fn is_null(self) -> bool
is_null(self) == self = U64_MAX

----------------------------------------------------------------------------
(* serde tokens, errors and results *)

NoTok      == [shape |-> "none", s |-> << >>, n |-> << >>]
StrTok(s)  == [shape |-> "str",  s |-> s,     n |-> << >>]
U64Tok(n)  == [shape |-> "u64",  s |-> << >>, n |-> n]
I64Tok(n)  == [shape |-> "i64",  s |-> << >>, n |-> n]

\* Ok(v)
Ok(v) == [ok |-> TRUE, val |-> v, err |-> "none", unexp |-> NoTok]

\* serde::de::Error::invalid_value(Unexpected::.., &self); the Unexpected
\* payload is kept as the token it wraps
invalid_value(unexp) ==
    [ok |-> FALSE, val |-> NoId, err |-> "invalid_value", unexp |-> unexp]

\* serde::de::Error::invalid_type, raised by a deserializer that holds a
\* token of another shape than the one asked for
invalid_type(unexp) ==
    [ok |-> FALSE, val |-> NoId, err |-> "invalid_type", unexp |-> unexp]

NoRes == [ok |-> FALSE, val |-> NoId, err |-> "none", unexp |-> NoTok]

\* a slip: the string parsed in base 10
visit_str_radix10(v) ==
    LET r == from_str_radix(v, 10)
    IN  IF r.ok THEN Ok(r.val) ELSE invalid_value(StrTok(v))

\* AssetIdVisitor::visit_str
visit_str(v) ==
    LET r == from_str_radix(v, 16)
    IN  IF r.ok THEN Ok(r.val) ELSE invalid_value(StrTok(v))

\* a slip: the number taken as the payload
visit_u64_plain(v) == Ok(v)

\* AssetIdVisitor::visit_u64
visit_u64(v) ==
    LET r == from_str_radix(U64ToString(v), 16)
    IN  IF r.ok THEN Ok(r.val) ELSE invalid_value(U64Tok(v))

\* a slip: the sign dropped, v.unsigned_abs().to_string()
visit_i64_abs(v) ==
    LET r == from_str_radix(U64ToString(IF IsNegative(v) THEN WrappingNeg(v) ELSE v), 16)
    IN  IF r.ok THEN Ok(r.val) ELSE invalid_value(I64Tok(v))

\* AssetIdVisitor::visit_i64
visit_i64(v) ==
    LET r == from_str_radix(I64ToString(v), 16)
    IN  IF r.ok THEN Ok(r.val) ELSE invalid_value(I64Tok(v))

\* the visitor method a deserializer calls for the token it holds
Visit(t) ==
    CASE t.shape = "str" -> visit_str(t.s)
      [] t.shape = "u64" -> visit_u64(t.n)
      [] t.shape = "i64" -> visit_i64(t.n)

\* Deserializer::deserialize_any: the token's own shape decides
deserialize_any(t) == { Visit(t) }

\* Deserializer::deserialize_str: a hint. A string token is visited as a
\* string; holding another token, a deserializer either refuses it or
\* ignores the hint and visits what it holds
deserialize_str(t) ==
    IF t.shape = "str" THEN { visit_str(t.s) }
    ELSE { invalid_type(t), Visit(t) }

\* a slip of the format string: format!("{:X}", self.0)
serialize_upper(self) == StrTok(UpperHexU64(self))

\* a slip of the format string: format!("{}", self.0)
serialize_decimal(self) == StrTok(U64ToString(self))

\* impl Serialize for U64Id: serializer.serialize_str(&format!("{:x}", self.0))
serialize(self) == StrTok(LowerHexU64(self))

\* a slip: the two branches the other way round
deserialize_swapped(t, hr) ==
    IF hr THEN deserialize_str(t) ELSE deserialize_any(t)

\* impl Deserialize for U64Id: the results the call can return for a
\* deserializer holding token t with is_human_readable() = hr
deserialize(t, hr) ==
    IF hr THEN deserialize_any(t) ELSE deserialize_str(t)

----------------------------------------------------------------------------
(* inputs *)

\* every u64 from 0 up to MaxSmall is an input
MaxSmall == 16

\* every string over Alphabet of at most MaxStrLen characters is an input
MaxStrLen == 2

GridLimbs == { 0, 10, 2748, LimbMax }

GridU64 == { << a, b, c, d >> : a \in GridLimbs, b \in GridLimbs,
                                c \in GridLimbs, d \in GridLimbs }

SmallU64 == { FromNat(n) : n \in 0..MaxSmall }

\* the ends of VALID_RANGE and of the reserved band, the values of the
\* crate's tests, 10^16 - 1 and 10^16, i64::MAX, i64::MIN, -5 and -12345
EdgeU64 ==
    { SubSmall(U64_MAX, 129), SubSmall(U64_MAX, 128), SubSmall(U64_MAX, 127),
      SubSmall(U64_MAX, 1), U64_MAX,
      FromNat(12345), FromNat(74565), FromNat(168997701), FromNat(12345321),
      FromNat(123454321), FromNat(123456305), FromHalves(1, 591741729),
      FromHalves(2328306, 1874919423), FromHalves(2328306, 1874919424),
      << LimbBase \div 2 - 1, LimbMax, LimbMax, LimbMax >>,
      << LimbBase \div 2, 0, 0, 0 >>,
      WrappingNeg(FromNat(5)), WrappingNeg(FromNat(12345)) }

U64Samples == GridU64 \cup SmallU64 \cup EdgeU64

Alphabet == { "0", "1", "a", "f", "F", "z", "+", "-", " " }

RECURSIVE StringsUpTo(_)
StringsUpTo(n) ==
    IF n = 0 THEN { << >> }
    ELSE LET shorter == StringsUpTo(n - 1)
         IN  shorter \cup { Append(str, c) : str \in shorter, c \in Alphabet }

Prefixes == { << >>, << "+" >>, << "-" >>, << "0" >>, << "0", "x" >>, << " " >> }

Suffixes == { << >>, << "0" >>, << "g" >>, << " " >> }

HexBodies == { U64_ZERO, FromNat(168997701), U64_MAX,
               << 4095, LimbMax, LimbMax, LimbMax >> }

StrSamples ==
    StringsUpTo(MaxStrLen)
        \cup { << "z", "z", "z" >> }
        \cup { LowerHexU64(v) : v \in U64Samples }
        \cup { UpperHexU64(v) : v \in U64Samples }
        \cup { pre \o LowerHexU64(v) \o suf :
                    pre \in Prefixes, suf \in Suffixes, v \in HexBodies }

\* the tokens a deserializer may hold
InputTokens ==
    { StrTok(str) : str \in StrSamples }
        \cup { U64Tok(n) : n \in U64Samples }
        \cup { I64Tok(n) : n \in U64Samples }

\* rand::rng().random_range(range): some value of the range
random_range(range) == { v \in U64Samples : RangeContains(range, v) }

\* pub fn new() -> Self: the identifiers a call can return
new == random_range(VALID_RANGE)

\* impl Default for U64Id: Self::new()
default == new

----------------------------------------------------------------------------
(* state *)

VARIABLES
    id,     \* the identifier at hand (NoId: none)
    idTok,  \* the token id was decoded from (NoTok: id was constructed)
    tok,    \* the token last written by serialize or read by deserialize
    tokId,  \* the identifier serialize wrote tok for (NoId: tok came from outside)
    res,    \* what the last deserialize call returned
    hr,     \* is_human_readable() of the last serializer or deserializer
    nullq,  \* what the last is_null call returned
    op      \* the last operation

vars == << id, idTok, tok, tokId, res, hr, nullq, op >>

Init ==
    /\ id = NoId
    /\ idTok = NoTok
    /\ tok = NoTok
    /\ tokId = NoId
    /\ res = NoRes
    /\ hr = FALSE
    /\ nullq = FALSE
    /\ op = "init"

\* The model follows one value at a time: an identifier or a token enters
\* an empty scope (Empty), is worked on, and is dropped before the next
\* one enters (Drop).
Empty == op = "init"

\* a constructed identifier: no token belongs to it yet
Constructed(v, name) ==
    /\ Empty
    /\ id' = v
    /\ idTok' = NoTok
    /\ tok' = NoTok
    /\ tokId' = NoId
    /\ res' = NoRes
    /\ hr' = FALSE
    /\ nullq' = FALSE
    /\ op' = name

\* U64Id(v): the public tuple constructor, no validation
FromRaw == \E v \in U64Samples : Constructed(v, "from_raw")

\* U64Id::NULL
Null == Constructed(NULL, "null")

\* U64Id::new()
New == \E v \in new : Constructed(v, "new")

\* U64Id::default()
Default == \E v \in default : Constructed(v, "default")

\* id.is_null()
IsNull ==
    /\ id # NoId
    /\ nullq' = is_null(id)
    /\ op' = "is_null"
    /\ UNCHANGED << id, idTok, tok, tokId, res, hr >>

\* id.serialize(serializer)
Serialize ==
    /\ id # NoId
    /\ \E h \in BOOLEAN : hr' = h
    /\ tok' = serialize(id)
    /\ tokId' = id
    /\ res' = NoRes
    /\ nullq' = FALSE
    /\ op' = "serialize"
    /\ UNCHANGED << id, idTok >>

\* U64Id::deserialize(deserializer) for a deserializer holding token t
Decoded(t, h) ==
    \E r \in deserialize(t, h) :
        /\ res' = r
        /\ id' = r.val
        /\ idTok' = IF r.ok THEN t ELSE NoTok
        /\ tok' = t
        /\ hr' = h
        /\ nullq' = FALSE
        /\ op' = "deserialize"

\* deserialize a token that comes from outside
DeserializeInput ==
    /\ Empty
    /\ \E h \in BOOLEAN, t \in InputTokens : Decoded(t, h)
    /\ tokId' = NoId

\* deserialize the token at hand (the one serialize wrote, or the input again)
DeserializeToken ==
    /\ tok # NoTok
    /\ \E h \in BOOLEAN : Decoded(tok, h)
    /\ UNCHANGED tokId

\* the value goes out of scope
Drop ==
    /\ ~Empty
    /\ id' = NoId
    /\ idTok' = NoTok
    /\ tok' = NoTok
    /\ tokId' = NoId
    /\ res' = NoRes
    /\ hr' = FALSE
    /\ nullq' = FALSE
    /\ op' = "init"

Next ==
    \/ FromRaw
    \/ Null
    \/ New
    \/ Default
    \/ IsNull
    \/ Serialize
    \/ DeserializeInput
    \/ DeserializeToken
    \/ Drop

Spec == Init /\ [][Next]_vars

----------------------------------------------------------------------------
(* vocabulary of the properties *)

LowerHexChars ==
    { "0","1","2","3","4","5","6","7","8","9","a","b","c","d","e","f" }

HexChars == LowerHexChars \cup { "A","B","C","D","E","F" }

\* a nonempty run of hexadecimal digits
SolelyHex(str) == str # << >> /\ \A i \in 1..Len(str) : str[i] \in HexChars

\* a nonempty run of hexadecimal digits, or one "+" and then such a run
PlusHex(str) ==
    \/ SolelyHex(str)
    \/ Len(str) >= 2 /\ str[1] = "+" /\ SolelyHex(Tail(str))

\* the canonical form: 1 to 16 lowercase hex digits, no leading zero but "0"
Canonical(str) ==
    /\ Len(str) \in 1..16
    /\ \A i \in 1..Len(str) : str[i] \in LowerHexChars
    /\ str[1] = "0" => Len(str) = 1

\* the 16 nibbles of a u64, most significant first, read off its bits
Nibbles(v) ==
    [ k \in 1..16 |->
        LET limb  == v[((k - 1) \div 4) + 1]
            shift == 3 - ((k - 1) % 4)
        IN  (limb \div (16 ^ shift)) % 16 ]

\* the lowercase hex numeral of v: its nibbles from the first that is not
\* zero (from the last one for zero)
HexNumeral(v) ==
    LET nib   == Nibbles(v)
        nz    == { k \in 1..16 : nib[k] # 0 }
        first == IF nz = {} THEN 16 ELSE CHOOSE k \in nz : \A j \in nz : k <= j
    IN  [ i \in 1..(17 - first) |-> LowerDigits[nib[first + i - 1] + 1] ]

\* 10^16: the least number whose decimal digits, read as hex, pass 2^64 - 1
Ten16 == FromHalves(2328306, 1874919424)

\* the last value of the valid range, u64::MAX - 129 = 0xffff_ffff_ffff_ff7e
LastValid == << 65535, 65535, 65535, 65406 >>

\* the reserved band [u64::MAX - 127, u64::MAX]
ReservedBand == { << 65535, 65535, 65535, d >> : d \in 65408..65535 }

S_123454321 == << "1","2","3","4","5","4","3","2","1" >>
S_75bcb31 == << "7","5","b","c","b","3","1" >>
S_75bc371 == << "7","5","b","c","3","7","1" >>

----------------------------------------------------------------------------
(* the claims *)

\* C1: serializing U64Id(v) and deserializing the string token that was
\* written succeeds and yields U64Id(v) again, for every payload v, the
\* reserved band and the sentinel included.
C1_RoundTrip ==
    (op = "deserialize" /\ tokId # NoId) => (res = Ok(tokId) /\ id = tokId)

C1_Witness ==
    /\ op = "deserialize"
    /\ tokId = U64_MAX
    /\ tok = StrTok(HexNumeral(U64_MAX))
    /\ res = Ok(U64_MAX)

\* C2: a human-readable decoder given an unsigned token n yields the
\* identifier whose hex digits are the decimal digits of n (12345 gives
\* 74565); it fails only when that value passes 64 bits (n >= 10^16), and
\* then with invalid_value carrying the number n.
C2_DualInterpretation ==
    (op = "deserialize" /\ hr /\ tok.shape = "u64") =>
        /\ LtU64(tok.n, Ten16) =>
              /\ res.ok
              /\ id = res.val
              /\ HexNumeral(res.val) = U64ToString(tok.n)
        /\ ~LtU64(tok.n, Ten16) =>
              /\ res = invalid_value(U64Tok(tok.n))
              /\ id = NoId
        /\ tok.n = FromNat(12345) => res = Ok(FromNat(74565))

C2_Witness ==
    /\ op = "deserialize"
    /\ hr
    /\ tok = U64Tok(FromNat(12345))
    /\ id = FromNat(74565)

\* C3 as stated: every string token that is not solely hexadecimal digits
\* (a string with a sign included) fails with invalid_value carrying the
\* string, and no identifier is produced.
C3_Original ==
    (op = "deserialize" /\ tok.shape = "str" /\ ~SolelyHex(tok.s)) =>
        (res = invalid_value(StrTok(tok.s)) /\ id = NoId)

\* C3 amended: every string token that is neither a nonempty run of
\* hexadecimal digits nor one "+" followed by such a run fails with
\* invalid_value carrying exactly that string, and no identifier is
\* produced; "+" followed by at most 16 hex digits is accepted.
C3_InvalidStringRejected ==
    (op = "deserialize" /\ tok.shape = "str") =>
        /\ ~PlusHex(tok.s) => (res = invalid_value(StrTok(tok.s)) /\ id = NoId)
        /\ (PlusHex(tok.s) /\ ~SolelyHex(tok.s) /\ Len(tok.s) <= 17) => res.ok

C3_Witness ==
    /\ op = "deserialize"
    /\ tok = StrTok(<< "z", "z", "z" >>)
    /\ res = invalid_value(StrTok(<< "z", "z", "z" >>))
    /\ id = NoId

\* C4: every identifier new() or default() returns has its payload in
\* [0, u64::MAX - 128): never the sentinel u64::MAX, never a value of the
\* reserved band [u64::MAX - 127, u64::MAX].
C4_GeneratorRange ==
    op \in { "new", "default" } =>
        /\ id = LastValid \/ LtU64(id, LastValid)
        /\ id # << 65535, 65535, 65535, 65535 >>
        /\ id \notin ReservedBand

C4_Witness == op = "default" /\ id = LastValid

\* C5: is_null() is true exactly for the payload u64::MAX: true for
\* U64Id::NULL, false for 0 and for the reserved band below u64::MAX.
C5_NullCheck ==
    /\ NULL = << 65535, 65535, 65535, 65535 >>
    /\ op = "is_null" => (nullq <=> id = << 65535, 65535, 65535, 65535 >>)

C5_Witness ==
    /\ op = "is_null"
    /\ id = << 65535, 65535, 65535, 65534 >>
    /\ ~nullq

\* C6: for a human-readable and for a binary serializer alike, serialize
\* writes one string token: the lowercase hex numeral of the payload, no
\* prefix, no leading zero ("0" for 0), no uppercase letter; never an
\* integer token.
C6_CanonicalEncoding ==
    op = "serialize" =>
        /\ tok.shape = "str"
        /\ tokId = id
        /\ tok.s = HexNumeral(id)
        /\ Canonical(tok.s)

C6_Witness ==
    /\ op = "serialize"
    /\ ~hr
    /\ id = << 0, 10, 2748, 0 >>
    /\ tok = StrTok(<< "a", "0", "a", "b", "c", "0", "0", "0", "0" >>)

\* C7 as stated: a human-readable decoder treats a signed token as an
\* unsigned one: it fails only when the digits, read as hex, pass 64 bits,
\* never because of the token's shape.
C7_Original ==
    (op = "deserialize" /\ hr /\ tok.shape = "i64" /\ ~res.ok) =>
        ~LtU64(IF IsNegative(tok.n) THEN WrappingNeg(tok.n) ELSE tok.n, Ten16)

\* C7 amended: a human-readable decoder treats a signed token i >= 0 as
\* the unsigned token of the same value (it fails only for i >= 10^16,
\* with invalid_value carrying i); every negative i fails with
\* invalid_value carrying i, because of the "-" of its decimal rendering.
C7_SignedToken ==
    (op = "deserialize" /\ hr /\ tok.shape = "i64") =>
        /\ (~IsNegative(tok.n) /\ LtU64(tok.n, Ten16)) =>
              /\ res.ok
              /\ id = res.val
              /\ HexNumeral(res.val) = U64ToString(tok.n)
        /\ (IsNegative(tok.n) \/ ~LtU64(tok.n, Ten16)) =>
              /\ res = invalid_value(I64Tok(tok.n))
              /\ id = NoId

C7_Witness ==
    /\ op = "deserialize"
    /\ hr
    /\ tok = I64Tok(<< 65535, 65535, 65535, 65531 >>)
    /\ res = invalid_value(I64Tok(<< 65535, 65535, 65535, 65531 >>))

\* C8: decoding a string in canonical form (1 to 16 lowercase hex digits,
\* no leading zero unless it is "0") succeeds, and serializing the
\* identifier it gave writes exactly that string again.
C8_CanonicalFixedPoint ==
    /\ (op = "deserialize" /\ tok.shape = "str" /\ Canonical(tok.s)) =>
            (res.ok /\ idTok = tok)
    /\ (op = "serialize" /\ idTok.shape = "str" /\ Canonical(idTok.s)) =>
            tok = idTok

C8_Witness ==
    /\ op = "serialize"
    /\ idTok = StrTok(S_123454321)
    /\ id = FromHalves(1, 591741729)
    /\ tok = StrTok(S_123454321)

\* C9 as stated: serializing the payload 123454321 writes "75bcb31", and
\* decoding "75bcb31" yields the payload 123454321.
C9_Original ==
    /\ (op = "serialize" /\ id = FromNat(123454321)) => tok = StrTok(S_75bcb31)
    /\ (op = "deserialize" /\ tok = StrTok(S_75bcb31)) => res = Ok(FromNat(123454321))

\* C9 amended: serializing the payload 123454321 writes "75bc371", and
\* decoding "75bc371" yields the payload 123454321.
C9_ConcreteCycle ==
    /\ (op = "serialize" /\ id = FromNat(123454321)) => tok = StrTok(S_75bc371)
    /\ (op = "deserialize" /\ tok = StrTok(S_75bc371)) => res = Ok(FromNat(123454321))

C9_Witness ==
    /\ op = "deserialize"
    /\ tokId = FromNat(123454321)
    /\ tok = StrTok(S_75bc371)
    /\ id = FromNat(123454321)

\* C10 as stated: a decoder that is not human-readable never turns an
\* integer token into an identifier; a human-readable one dispatches on the
\* token's shape.
C10_Original ==
    op = "deserialize" =>
        /\ (~hr /\ tok.shape \in { "u64", "i64" }) => ~res.ok
        /\ hr => res = Visit(tok)

\* C10 amended: a decoder that is not human-readable is asked for a string
\* only: a string token takes the strict string-hex path, and an integer
\* token is either refused as a wrong type or, by a decoder that ignores the
\* request, handed to the same decimal-digits-as-hex methods; a
\* human-readable decoder dispatches on the token's shape and takes string,
\* unsigned and signed tokens.
C10_DispatchByFormat ==
    op = "deserialize" =>
        /\ hr => (res = Visit(tok) /\ res.err # "invalid_type")
        /\ (~hr /\ tok.shape = "str") => res = visit_str(tok.s)
        /\ (~hr /\ tok.shape # "str") => res \in { invalid_type(tok), Visit(tok) }

C10_Witness ==
    /\ op = "deserialize"
    /\ ~hr
    /\ tok = U64Tok(FromNat(12345))
    /\ res = invalid_type(U64Tok(FromNat(12345)))

====
